---------------------------- MODULE Spec2Model ----------------------------
(***************************************************************************)
(* Rackspace Spot MCP server: the tool catalog and read-only gate of the   *)
(* server entry point, and the token cache of SpotClient.                  *)
(*                                                                         *)
(* The server is a single-threaded event loop.  A tool call runs without   *)
(* interruption until it awaits a fetch; each action below is one such     *)
(* run-to-completion segment: from the arrival of the request to the first *)
(* fetch, and from the arrival of a fetch response to the next fetch or to *)
(* the returned result.  The result a handler returns is written to the    *)
(* transport in the same turn of the loop, before any other event is       *)
(* handled (Respond); the record of the call that is kept afterwards is    *)
(* history.                                                                *)
(*                                                                         *)
(* Strings are modelled as sequences of pieces (Text), so that "the text   *)
(* contains X" is "X is one of the pieces".  HTTP statuses are strings.    *)
(* A token is identified by the serial number of the exchange that issued  *)
(* it; 0 stands for the null token.                                        *)
(***************************************************************************)
EXTENDS Integers, Sequences, FiniteSets, TLC

---------------------------------------------------------------------------
(* Bounds of the model *)

\* number of tool calls one behaviour issues (they may overlap)
MaxCalls == 2

\* number of clock steps one behaviour takes
MaxTicks == 1

---------------------------------------------------------------------------
(* Program constants *)

\* the 60s buffer of ensureAuthenticated, in ms
SafetyMarginMs == 60000

\* expires_in is in seconds, Date.now() in ms
MsPerSecond == 1000

\* the clock advances in steps of one safety margin
TickMs == SafetyMarginMs

MaxNow == MaxTicks * TickMs

\* expires_in values (seconds) the token endpoint answers with
ExpiresIn == {60, 120}

\* process.env values: Absent stands for an unset variable
Absent == "<unset>"

ReadOnlyValues == {Absent, "true", "1", "false", "TRUE", ""}

RefreshTokenValues == {Absent, "", "test-token"}

---------------------------------------------------------------------------
(* The catalog *)

Tool(n, req, w) == [name |-> n, required |-> req, writable |-> w]

\* a catalog with an entry pasted twice
allToolsPasted ==
  << Tool("list_regions", {}, FALSE),
     Tool("get_region", {"name"}, FALSE),
     Tool("get_region", {"name"}, FALSE) >>

\* allTools: `writable` is TRUE where the source sets it and FALSE where the
\* source leaves it undefined (the only use is the truthiness test !tool.writable)
allTools ==
  << Tool("list_regions", {}, FALSE),
     Tool("get_region", {"name"}, FALSE),
     Tool("list_server_classes", {}, FALSE),
     Tool("get_server_class", {"name"}, FALSE),
     Tool("list_organizations", {}, FALSE),
     Tool("list_cloudspaces", {"namespace"}, FALSE),
     Tool("get_cloudspace", {"namespace", "name"}, FALSE),
     Tool("create_cloudspace", {"namespace", "name", "region"}, TRUE),
     Tool("delete_cloudspace", {"namespace", "name"}, TRUE),
     Tool("list_spot_node_pools", {"namespace", "cloudspaceName"}, FALSE),
     Tool("get_spot_node_pool", {"namespace", "name"}, FALSE),
     Tool("create_spot_node_pool",
          {"namespace", "name", "cloudspaceName", "serverClassName", "bidPrice"}, TRUE),
     Tool("delete_spot_node_pool", {"namespace", "name"}, TRUE),
     Tool("list_ondemand_node_pools", {"namespace", "cloudspaceName"}, FALSE),
     Tool("get_ondemand_node_pool", {"namespace", "name"}, FALSE),
     Tool("create_ondemand_node_pool",
          {"namespace", "name", "cloudspaceName", "serverClassName"}, TRUE),
     Tool("delete_ondemand_node_pool", {"namespace", "name"}, TRUE),
     Tool("get_kubeconfig", {"organizationName", "cloudspaceName"}, FALSE),
     Tool("get_market_pricing", {}, FALSE),
     Tool("get_price_history", {"serverClass", "region"}, FALSE),
     Tool("get_percentile_pricing", {}, FALSE) >>

\* the set as it would be had the on-demand tools been tagged in allTools only
WRITABLE_TOOLS_STALE ==
  { "create_cloudspace", "delete_cloudspace",
    "create_spot_node_pool", "delete_spot_node_pool" }

\* the server's WRITABLE_TOOLS set
WRITABLE_TOOLS ==
  { "create_cloudspace", "delete_cloudspace",
    "create_spot_node_pool", "delete_spot_node_pool",
    "create_ondemand_node_pool", "delete_ondemand_node_pool" }

\* the read-only names the integration test expects to be listed
READ_ONLY_TOOLS ==
  { "list_regions", "get_region", "list_server_classes", "get_server_class",
    "list_organizations", "list_cloudspaces", "get_cloudspace",
    "list_spot_node_pools", "get_spot_node_pool",
    "list_ondemand_node_pools", "get_ondemand_node_pool",
    "get_kubeconfig", "get_market_pricing", "get_price_history",
    "get_percentile_pricing" }

CatalogNames == { allTools[k].name : k \in DOMAIN allTools }

\* the switch without its case for get_market_pricing
DispatchShort ==
  [ list_regions |-> "listRegions",
    get_region |-> "getRegion",
    list_server_classes |-> "listServerClasses",
    get_server_class |-> "getServerClass",
    list_organizations |-> "listOrganizations",
    list_cloudspaces |-> "listCloudspaces",
    get_cloudspace |-> "getCloudspace",
    create_cloudspace |-> "createCloudspace",
    delete_cloudspace |-> "deleteCloudspace",
    list_spot_node_pools |-> "listSpotNodePools",
    get_spot_node_pool |-> "getSpotNodePool",
    create_spot_node_pool |-> "createSpotNodePool",
    delete_spot_node_pool |-> "deleteSpotNodePool",
    list_ondemand_node_pools |-> "listOnDemandNodePools",
    get_ondemand_node_pool |-> "getOnDemandNodePool",
    create_ondemand_node_pool |-> "createOnDemandNodePool",
    delete_ondemand_node_pool |-> "deleteOnDemandNodePool",
    get_kubeconfig |-> "generateKubeconfig",
    get_price_history |-> "getPriceHistory",
    get_percentile_pricing |-> "getPercentileInformation" ]

\* the switch of the call handler: tool name -> SpotClient method
Dispatch ==
  [ list_regions |-> "listRegions",
    get_region |-> "getRegion",
    list_server_classes |-> "listServerClasses",
    get_server_class |-> "getServerClass",
    list_organizations |-> "listOrganizations",
    list_cloudspaces |-> "listCloudspaces",
    get_cloudspace |-> "getCloudspace",
    create_cloudspace |-> "createCloudspace",
    delete_cloudspace |-> "deleteCloudspace",
    list_spot_node_pools |-> "listSpotNodePools",
    get_spot_node_pool |-> "getSpotNodePool",
    create_spot_node_pool |-> "createSpotNodePool",
    delete_spot_node_pool |-> "deleteSpotNodePool",
    list_ondemand_node_pools |-> "listOnDemandNodePools",
    get_ondemand_node_pool |-> "getOnDemandNodePool",
    create_ondemand_node_pool |-> "createOnDemandNodePool",
    delete_ondemand_node_pool |-> "deleteOnDemandNodePool",
    get_kubeconfig |-> "generateKubeconfig",
    get_market_pricing |-> "getMarketPriceCapacity",
    get_price_history |-> "getPriceHistory",
    get_percentile_pricing |-> "getPercentileInformation" ]

\* the methods that call customFetch themselves
DirectMethods ==
  { "generateKubeconfig", "getPriceHistory", "getMarketPriceCapacity",
    "getPercentileInformation" }

\* the piece of the error message each SpotClient method throws with
FailedTo ==
  [ listRegions |-> "Failed to list regions: ",
    getRegion |-> "Failed to get region: ",
    listServerClasses |-> "Failed to list server classes: ",
    getServerClass |-> "Failed to get server class: ",
    listOrganizations |-> "Failed to list organizations: ",
    listCloudspaces |-> "Failed to list cloudspaces: ",
    getCloudspace |-> "Failed to get cloudspace: ",
    createCloudspace |-> "Failed to create cloudspace: ",
    deleteCloudspace |-> "Failed to delete cloudspace: ",
    listSpotNodePools |-> "Failed to list spot node pools: ",
    getSpotNodePool |-> "Failed to get spot node pool: ",
    createSpotNodePool |-> "Failed to create spot node pool: ",
    deleteSpotNodePool |-> "Failed to delete spot node pool: ",
    listOnDemandNodePools |-> "Failed to list on-demand node pools: ",
    getOnDemandNodePool |-> "Failed to get on-demand node pool: ",
    createOnDemandNodePool |-> "Failed to create on-demand node pool: ",
    deleteOnDemandNodePool |-> "Failed to delete on-demand node pool: ",
    generateKubeconfig |-> "Failed to generate kubeconfig: ",
    getPriceHistory |-> "Failed to get price history: ",
    getMarketPriceCapacity |-> "Failed to get market price capacity: ",
    getPercentileInformation |-> "Failed to get percentile information: " ]

\* a name that is in no catalog
UnknownName == "nonexistent_tool"

\* the `required` list of a tool's inputSchema
Required(name) ==
  IF name \in CatalogNames
  THEN (CHOOSE t \in { allTools[k] : k \in DOMAIN allTools } : t.name = name).required
  ELSE {}

\* the tools a caller also calls with `arguments: {}`: one per code path of the
\* client that takes arguments, and a mutating one
BareCallNames == { "get_cloudspace", "get_kubeconfig", "create_cloudspace" }

\* the arguments a caller sends, as the set of their names: all the required
\* ones, or none
Arguments(name) == { Required(name) } \cup (IF name \in BareCallNames THEN { {} } ELSE {})

\* the names a caller sends: every mutating tool, read tools for each code path of
\* the client (openapi-fetch with and without arguments, the exempt kubeconfig
\* call, a pricing call), and the unknown name
CallNames ==
  WRITABLE_TOOLS \cup
  { "list_regions", "get_cloudspace", "get_kubeconfig", "get_market_pricing", UnknownName }


---------------------------------------------------------------------------
(* Pure functions of the server entry point *)

\* the flag tested for truthiness: any non-empty value turns read-only mode on
isReadOnlyTruthy(envValue) == envValue # Absent /\ envValue # ""

\* isReadOnly(): envValue === "true" || envValue === "1"
isReadOnly(envValue) == envValue = "true" \/ envValue = "1"

\* getRefreshToken(): throws when the variable is unset or empty (!token)
HasRefreshToken(token) == token # Absent /\ token # ""

Text(pieces) == pieces

Has(text, piece) == \E k \in DOMAIN text : text[k] = piece

\* a value that is no string: what JSON.stringify(undefined) returns
Undefined == << "<undefined>" >>

RECURSIVE FilterToolsInverted(_, _)
\* the filter with its test inverted: allTools.filter((tool) => tool.writable)
FilterToolsInverted(tools, k) ==
  IF k > Len(tools) THEN << >>
  ELSE IF tools[k].writable
       THEN << tools[k] >> \o FilterToolsInverted(tools, k + 1)
       ELSE FilterToolsInverted(tools, k + 1)

RECURSIVE FilterToolsShort(_, _)
\* the filter stopping one entry early
FilterToolsShort(tools, k) ==
  IF k >= Len(tools) THEN << >>
  ELSE IF ~tools[k].writable
       THEN << tools[k] >> \o FilterToolsShort(tools, k + 1)
       ELSE FilterToolsShort(tools, k + 1)

RECURSIVE FilterTools(_, _)
\* allTools.filter((tool) => !tool.writable), order kept
FilterTools(tools, k) ==
  IF k > Len(tools) THEN << >>
  ELSE IF ~tools[k].writable
       THEN << tools[k] >> \o FilterTools(tools, k + 1)
       ELSE FilterTools(tools, k + 1)

\* tools.map(({ writable, ...rest }) => rest)
PublicTool(tool) == [name |-> tool.name, required |-> tool.required]

\* the list-tools handler without its filter
ListToolsResultUnfiltered(all, envValue) == [k \in DOMAIN all |-> PublicTool(all[k])]

\* the list-tools handler, on the catalog `all`
ListToolsResult(all, envValue) ==
  LET tools == IF isReadOnly(envValue) THEN FilterTools(all, 1) ELSE all
  IN  [k \in DOMAIN tools |-> PublicTool(tools[k])]

\* the flag removed from the entries themselves: tools.forEach((t) => delete t.writable)
CatalogAfterDelete(all) == [k \in DOMAIN all |-> [all[k] EXCEPT !.writable = FALSE]]

\* the catalog after the handler has run: filter and map build a new array and new
\* objects ({ writable, ...rest }) => rest, the entries of allTools are not written
CatalogAfterMap(all) == all

\* a call handler without its gate
BlockedNever(envValue, name) == FALSE

\* the gate testing the flag against "true" only
BlockedUnlessOne(envValue, name) == envValue = "true" /\ name \in WRITABLE_TOOLS

\* the gate at the top of the call handler
Blocked(envValue, name) == isReadOnly(envValue) /\ name \in WRITABLE_TOOLS

\* the result the gate returns
BlockedResult(name) ==
  [ isError |-> TRUE,
    text |-> Text(<< "Error: ", "Tool \"", name, "\" is ",
                     "not available in read-only mode",
                     ". Set RACKSPACE_SPOT_READ_ONLY=false to enable write operations." >>) ]

\* the catch block of the call handler: `Error: ${message}`, isError: true
CaughtResult(message) == [isError |-> TRUE, text |-> Text(<< "Error: " >> \o message)]

\* the success return: JSON.stringify(result, null, 2), no isError
\* JSON.stringify(undefined) is undefined, not a string
SuccessResult(data) ==
  [ isError |-> FALSE,
    text |-> IF data = "undefined" THEN Undefined ELSE Text(<< data >>) ]

\* the messages of the errors thrown below the catch block
MissingTokenMessage ==
  << "RACKSPACE_SPOT_REFRESH_TOKEN environment variable is required. ",
     "Get your refresh token from https://spot.rackspace.com/ui/api-access/terraform" >>

UnknownToolMessage(name) == << "Unknown tool: ", name >>

AuthFailedMessage(status, body) == << "Authentication failed: ", status, " - ", body >>

\* what a rejected fetch or a response.json() of an unparsable body throws
FetchFailedMessage == << "fetch failed" >>

JsonFailedMessage == << "Unexpected end of JSON input" >>

\* direct methods: `Failed to ...: ${response.status} - ${error}`
DirectFailedMessage(method, status, body) == << FailedTo[method], status, " - ", body >>

\* openapi-fetch methods: `Failed to ...: ${JSON.stringify(error)}`
ClientFailedMessage(method, error) == << FailedTo[method], error >>

---------------------------------------------------------------------------
(* Pure functions of SpotClient *)

\* response.ok
IsOk(status) == status = "200"

\* the test with the comparison turned round
TokenValidTurned(token, expiry, t) == token # 0 /\ t > expiry - SafetyMarginMs

\* ensureAuthenticated's test: this.accessToken && Date.now() < this.tokenExpiry - 60000
TokenValid(token, expiry, t) == token # 0 /\ t < expiry - SafetyMarginMs

\* authenticate: Date.now() + data.expires_in * 1000
ExpiryOf(t, expiresIn) == t + expiresIn * MsPerSecond

\* the pricing methods without the `headers` option of their fetch
HasAuthorizationMiddlewareOnly(method, token) == method \notin DirectMethods /\ token # 0

\* the Authorization header of a request: authMiddleware.onRequest sets it only if
\* accessToken is truthy; the pricing methods always send `Bearer ${this.accessToken}`
HasAuthorization(method, token) == method \in DirectMethods \/ token # 0

\* the pricing methods without their `await this.ensureAuthenticated()`
AuthExemptAllDirect(method) == method \in DirectMethods

\* generateKubeconfig sent through the middleware like any other call
AuthExemptNone(method) == FALSE

\* the url test of authMiddleware and the methods that never call ensureAuthenticated
AuthExempt(method) == method = "generateKubeconfig"


---------------------------------------------------------------------------
(* Upstream answers *)

AuthStatuses == {"200", "401"}

ResourceStatuses == {"200", "403"}

\* a response body: some JSON text, or nothing
Bodies == {"{json}", ""}

\* what openapi-fetch hands back for a body: the parsed JSON; for an empty body
\* `undefined` or `{}`, depending on the Content-Length header and the release
Parsed(body) == IF body = "" THEN {"undefined", "{}"} ELSE {body}

\* the same for a success response, where an empty body may also fail to parse
Unparsable == "<unparsable>"

ParsedData(body) == Parsed(body) \cup (IF body = "" THEN {Unparsable} ELSE {})

\* the `if (error)` test of the openapi-fetch methods
Truthy(value) == value # "undefined" /\ value # ""

---------------------------------------------------------------------------
(* State *)

VARIABLES
  env,          \* process.env: RACKSPACE_SPOT_READ_ONLY and RACKSPACE_SPOT_REFRESH_TOKEN
  catalog,      \* the module-level array allTools, as it is in memory
  process,      \* the process: "starting" (main runs), "serving" or "exited"
  client,       \* main's `client`: "null" or "SpotClient"
  accessToken,  \* SpotClient.accessToken (0 = null)
  tokenExpiry,  \* SpotClient.tokenExpiry, ms
  now,          \* Date.now(), ms
  exchanges,    \* number of POSTs to /oauth/token sent so far
  calls,        \* the tool calls: one record per call, in order of arrival
  listed        \* the answers to tools/list so far: << >>, or << the last answer >>

vars == << env, catalog, process, client, accessToken, tokenExpiry, now, exchanges, calls, listed >>

Calls == 1 .. MaxCalls

NoRequest == << >>

NoResult == << >>

\* the calls whose authenticate() is awaiting the token endpoint
Authenticating == { j \in Calls : calls[j].pc = "auth" }

\* a call that has not arrived yet; `peers` is history: the calls that were
\* awaiting the token endpoint when this call found no valid token; `status` and
\* `body` are those of the resource response, once there is one
Idle ==
  [ pc |-> "idle", name |-> "", args |-> {}, method |-> "", exch |-> 0,
    auth |-> "none", request |-> NoRequest, result |-> NoResult, thrown |-> FALSE,
    peers |-> {}, status |-> "", body |-> "" ]

Init ==
  /\ env \in [READ_ONLY : ReadOnlyValues, REFRESH_TOKEN : RefreshTokenValues]
  /\ catalog = allTools
  /\ process = "starting"
  /\ client = "null"
  /\ accessToken = 0
  /\ tokenExpiry = 0
  /\ now = 0
  /\ exchanges = 0
  /\ calls = [i \in Calls |-> Idle]
  /\ listed = << >>

\* the request a SpotClient method sends to its resource endpoint
\*   authorization: the request has an Authorization header
\*   bearer: the token of that header (0: none, or `Bearer null`)
\*   refresh: the body carries the refresh token
ResourceRequest(method, token) ==
  IF AuthExempt(method)
  THEN << [authorization |-> FALSE, bearer |-> 0, refresh |-> TRUE] >>
  ELSE << [authorization |-> HasAuthorization(method, token), bearer |-> token,
           refresh |-> FALSE] >>

\* a loop that also stands still while a token exchange is awaited (a blocking
\* request)
QuietNoExchange == \A j \in Calls : calls[j].pc \notin {"done", "auth"}

\* no handler has returned a result that is still to be written out
Quiet == \A j \in Calls : calls[j].pc # "done"

\* the call handler returns `result`
Return(call, result) == [call EXCEPT !.pc = "done", !.result = << result >>]

\* the call handler's catch block
Catch(call, message) ==
  [call EXCEPT !.pc = "done", !.result = << CaughtResult(message) >>, !.thrown = TRUE]

---------------------------------------------------------------------------
(* Actions *)

\* main(): the handlers are registered and server.connect resolves; the credential
\* is not read
Main ==
  /\ process = "starting"
  /\ process' = "serving"
  /\ UNCHANGED << env, catalog, client, accessToken, tokenExpiry, now, exchanges, calls, listed >>

\* server.connect rejects: main().catch logs and calls process.exit(1)
Fatal ==
  /\ process = "starting"
  /\ process' = "exited"
  /\ UNCHANGED << env, catalog, client, accessToken, tokenExpiry, now, exchanges, calls, listed >>

\* a process that exits as soon as one authentication has failed
ServingUntilError == process = "serving" /\ \A j \in Calls : calls[j].auth # "failed"

\* requests reach the handlers once the transport is connected
Serving == process = "serving"

\* tools/list
ListTools ==
  /\ Serving
  /\ Quiet
  /\ listed' = << ListToolsResult(catalog, env.READ_ONLY) >>
  /\ catalog' = CatalogAfterMap(catalog)
  /\ UNCHANGED << env, process, client, accessToken, tokenExpiry, now, exchanges, calls >>

\* tools/call arrives: the gate, getClient, the switch, and the method up to its
\* first fetch; the arguments are read with args?.x and handed on as they are
CallTool(i, name, args) ==
  /\ Serving
  /\ Quiet
  /\ calls[i].pc = "idle"
  /\ \A j \in Calls : j < i => calls[j].pc # "idle"
  /\ LET call == [calls[i] EXCEPT !.name = name, !.args = args] IN
     IF Blocked(env.READ_ONLY, name)
     THEN /\ calls' = [calls EXCEPT ![i] = Return(call, BlockedResult(name))]
          /\ UNCHANGED << client, accessToken, tokenExpiry, exchanges >>
     ELSE IF client = "null" /\ ~HasRefreshToken(env.REFRESH_TOKEN)
     THEN \* getClient -> getRefreshToken throws
          /\ calls' = [calls EXCEPT ![i] = Catch(call, MissingTokenMessage)]
          /\ UNCHANGED << client, accessToken, tokenExpiry, exchanges >>
     ELSE /\ client' = "SpotClient"
          /\ UNCHANGED << accessToken, tokenExpiry >>
          /\ IF name \notin DOMAIN Dispatch
             THEN \* default: of the switch
                  /\ calls' = [calls EXCEPT ![i] = Catch(call, UnknownToolMessage(name))]
                  /\ UNCHANGED exchanges
             ELSE LET method == Dispatch[name]
                      run == [call EXCEPT !.method = method]
                  IN  IF AuthExempt(method) \/ TokenValid(accessToken, tokenExpiry, now)
                      THEN \* no exchange: the request goes out at once
                           /\ calls' = [calls EXCEPT ![i] =
                                [run EXCEPT !.pc = "resource",
                                            !.request = ResourceRequest(method, accessToken)]]
                           /\ UNCHANGED exchanges
                      ELSE \* ensureAuthenticated -> authenticate: POST /oauth/token
                           /\ exchanges' = exchanges + 1
                           /\ calls' = [calls EXCEPT ![i] =
                                [run EXCEPT !.pc = "auth", !.exch = exchanges + 1,
                                            !.peers = Authenticating]]
  /\ UNCHANGED << env, catalog, process, now, listed >>

\* the fetch of authenticate() rejects
AuthRejects(i) ==
  /\ Quiet
  /\ calls[i].pc = "auth"
  /\ calls' = [calls EXCEPT ![i] =
       Catch([calls[i] EXCEPT !.auth = "failed"], FetchFailedMessage)]
  /\ UNCHANGED << env, catalog, process, client, accessToken, tokenExpiry, now, exchanges, listed >>

\* a middleware that swallows the error of a refused exchange and sends the
\* request with whatever token is cached
AuthRefusedSendsAnyway(i, status, body) ==
  /\ Quiet
  /\ calls[i].pc = "auth"
  /\ ~IsOk(status)
  /\ calls' = [calls EXCEPT ![i] =
       [calls[i] EXCEPT !.pc = "resource", !.auth = "failed",
                        !.request = ResourceRequest(calls[i].method, accessToken)]]
  /\ UNCHANGED << env, catalog, process, client, accessToken, tokenExpiry, now,
                  exchanges, listed >>

\* authenticate dropping the Session when the token endpoint refuses
AuthRefusedClears(i, status, body) ==
  /\ Quiet
  /\ calls[i].pc = "auth"
  /\ ~IsOk(status)
  /\ accessToken' = 0
  /\ tokenExpiry' = 0
  /\ calls' = [calls EXCEPT ![i] =
       Catch([calls[i] EXCEPT !.auth = "failed"], AuthFailedMessage(status, body))]
  /\ UNCHANGED << env, catalog, process, client, now, exchanges, listed >>

\* authenticate without its `!response.ok` test: the answer of the token endpoint
\* is stored whatever its status, and the call fails later
AuthRefusedStored(i, status, body) ==
  /\ Quiet
  /\ calls[i].pc = "auth"
  /\ ~IsOk(status)
  /\ accessToken' = calls[i].exch
  /\ tokenExpiry' = ExpiryOf(now, 120)
  /\ calls' = [calls EXCEPT ![i] =
       Catch([calls[i] EXCEPT !.auth = "failed"], AuthFailedMessage(status, body))]
  /\ UNCHANGED << env, catalog, process, client, now, exchanges, listed >>

\* the token endpoint answers with a non-success status
AuthRefused(i, status, body) ==
  /\ Quiet
  /\ calls[i].pc = "auth"
  /\ ~IsOk(status)
  /\ calls' = [calls EXCEPT ![i] =
       Catch([calls[i] EXCEPT !.auth = "failed"], AuthFailedMessage(status, body))]
  /\ UNCHANGED << env, catalog, process, client, accessToken, tokenExpiry, now, exchanges, listed >>

\* authenticate without its two assignments: the exchange succeeds, nothing is
\* stored, and the request goes out with whatever accessToken holds
AuthGrantedNotStored(i, expiresIn) ==
  /\ Quiet
  /\ calls[i].pc = "auth"
  /\ calls' = [calls EXCEPT ![i] =
       [calls[i] EXCEPT !.pc = "resource", !.auth = "ok",
                        !.request = ResourceRequest(calls[i].method, accessToken)]]
  /\ UNCHANGED << env, catalog, process, client, accessToken, tokenExpiry, now,
                  exchanges, listed >>

\* authenticate keeping a token that another call has stored in the meantime
AuthGrantedKeepsFirst(i, expiresIn) ==
  /\ Quiet
  /\ calls[i].pc = "auth"
  /\ accessToken' = IF accessToken # 0 THEN accessToken ELSE calls[i].exch
  /\ tokenExpiry' = IF accessToken # 0 THEN tokenExpiry ELSE ExpiryOf(now, expiresIn)
  /\ calls' = [calls EXCEPT ![i] =
       [calls[i] EXCEPT !.pc = "resource", !.auth = "ok",
                        !.request = ResourceRequest(calls[i].method, accessToken')]]
  /\ UNCHANGED << env, catalog, process, client, now, exchanges, listed >>

\* authenticate storing the token only; the expiry stays what it was
AuthGrantedTokenOnly(i, expiresIn) ==
  /\ Quiet
  /\ calls[i].pc = "auth"
  /\ accessToken' = calls[i].exch
  /\ tokenExpiry' = tokenExpiry
  /\ calls' = [calls EXCEPT ![i] =
       [calls[i] EXCEPT !.pc = "resource", !.auth = "ok",
                        !.request = ResourceRequest(calls[i].method, accessToken')]]
  /\ UNCHANGED << env, catalog, process, client, now, exchanges, listed >>

\* the token endpoint answers with a token: authenticate stores it,
\* ensureAuthenticated returns and the method sends its request
AuthGranted(i, expiresIn) ==
  /\ Quiet
  /\ calls[i].pc = "auth"
  /\ accessToken' = calls[i].exch
  /\ tokenExpiry' = ExpiryOf(now, expiresIn)
  /\ calls' = [calls EXCEPT ![i] =
       [calls[i] EXCEPT !.pc = "resource", !.auth = "ok",
                        !.request = ResourceRequest(calls[i].method, accessToken')]]
  /\ UNCHANGED << env, catalog, process, client, now, exchanges, listed >>

\* the fetch of the resource request rejects
ResourceRejects(i) ==
  /\ Quiet
  /\ calls[i].pc = "resource"
  /\ calls' = [calls EXCEPT ![i] = Catch(calls[i], FetchFailedMessage)]
  /\ UNCHANGED << env, catalog, process, client, accessToken, tokenExpiry, now, exchanges, listed >>

\* a client that authenticates again and repeats the request when the resource
\* endpoint answers with a non-success status
ResourceRespondsRetries(i, status, body) ==
  /\ Quiet
  /\ calls[i].pc = "resource"
  /\ IF IsOk(status)
     THEN /\ calls' = [calls EXCEPT ![i] = Return(calls[i], SuccessResult(body))]
          /\ UNCHANGED exchanges
     ELSE /\ exchanges' = exchanges + 1
          /\ calls' = [calls EXCEPT ![i] =
               [calls[i] EXCEPT !.pc = "auth", !.exch = exchanges + 1,
                                !.status = status, !.body = body]]
  /\ UNCHANGED << env, catalog, process, client, accessToken, tokenExpiry, now, listed >>

\* a client that sends its request again for as long as the resource endpoint
\* answers with a non-success status
ResourceRespondsRepeats(i, status, body) ==
  /\ Quiet
  /\ calls[i].pc = "resource"
  /\ calls' = [calls EXCEPT ![i] =
       IF IsOk(status)
       THEN Return([calls[i] EXCEPT !.status = status, !.body = body], SuccessResult(body))
       ELSE [calls[i] EXCEPT !.status = status, !.body = body]]
  /\ UNCHANGED << env, catalog, process, client, accessToken, tokenExpiry, now, exchanges, listed >>

\* the resource endpoint answers
ResourceResponds(i, status, body) ==
  /\ Quiet
  /\ calls[i].pc = "resource"
  /\ LET call == [calls[i] EXCEPT !.status = status, !.body = body]
         method == call.method
     IN  IF method \in DirectMethods
         THEN calls' = [calls EXCEPT ![i] =
                IF ~IsOk(status)
                THEN Catch(call, DirectFailedMessage(method, status, body))
                ELSE IF body = ""
                     THEN Catch(call, JsonFailedMessage)
                     ELSE Return(call, SuccessResult(body))]
         ELSE IF ~IsOk(status)
              THEN \E error \in Parsed(body) :
                     calls' = [calls EXCEPT ![i] =
                       IF Truthy(error)
                       THEN Catch(call, ClientFailedMessage(method, error))
                       ELSE Return(call, SuccessResult("undefined"))]
              ELSE \E data \in ParsedData(body) :
                     calls' = [calls EXCEPT ![i] =
                       IF data = Unparsable
                       THEN Catch(call, JsonFailedMessage)
                       ELSE Return(call, SuccessResult(data))]
  /\ UNCHANGED << env, catalog, process, client, accessToken, tokenExpiry, now, exchanges, listed >>

\* the result of call i is written to the transport; what stays of the call is
\* the history of its requests
Respond(i) ==
  /\ calls[i].pc = "done"
  /\ calls' = [calls EXCEPT ![i] =
       [Idle EXCEPT !.pc = "closed", !.exch = calls[i].exch, !.auth = calls[i].auth,
                    !.request = calls[i].request, !.peers = calls[i].peers]]
  /\ UNCHANGED << env, catalog, process, client, accessToken, tokenExpiry, now, exchanges, listed >>

\* time passes
Tick ==
  /\ Serving
  /\ Quiet
  /\ now < MaxNow
  /\ now' = now + TickMs
  /\ UNCHANGED << env, catalog, process, client, accessToken, tokenExpiry, exchanges, calls, listed >>

Next ==
  \/ Main
  \/ Fatal
  \/ ListTools
  \/ \E i \in Calls, name \in CallNames : \E args \in Arguments(name) : CallTool(i, name, args)
  \/ \E i \in Calls : AuthRejects(i)
  \/ \E i \in Calls, status \in AuthStatuses, body \in Bodies : AuthRefused(i, status, body)
  \/ \E i \in Calls, expiresIn \in ExpiresIn : AuthGranted(i, expiresIn)
  \/ \E i \in Calls : ResourceRejects(i)
  \/ \E i \in Calls, status \in ResourceStatuses, body \in Bodies :
        ResourceResponds(i, status, body)
  \/ \E i \in Calls : Respond(i)
  \/ Tick

Spec == Init /\ [][Next]_vars

\* the fetch of call i's token exchange settles: it rejects, or it resolves with a
\* non-success or a success response
AuthAnswers(i) ==
  \/ AuthRejects(i)
  \/ \E status \in AuthStatuses, body \in Bodies : AuthRefused(i, status, body)
  \/ \E expiresIn \in ExpiresIn : AuthGranted(i, expiresIn)

\* the fetch of call i's resource request settles
ResourceAnswers(i) ==
  \/ ResourceRejects(i)
  \/ \E status \in ResourceStatuses, body \in Bodies : ResourceResponds(i, status, body)

\* every upstream request is answered in the end, and the loop writes out every
\* result a handler has returned
\* one value of each kind the process tells apart: read-only or not, a credential
\* or none
FairInit ==
  /\ Init
  /\ env.READ_ONLY \in {Absent, "true"}
  /\ env.REFRESH_TOKEN \in {Absent, "test-token"}

FairSpec ==
  /\ FairInit
  /\ [][Next]_vars
  /\ \A i \in Calls :
       /\ WF_vars(AuthAnswers(i))
       /\ WF_vars(ResourceAnswers(i))
       /\ WF_vars(Respond(i))


---------------------------------------------------------------------------
(* Vocabulary of the properties *)

\* the policy modes as the README documents them
RestrictedMode == env.READ_ONLY \in {"true", "1"}

PermissiveMode == ~RestrictedMode

\* the catalog entries tagged writable, and the others
MutatingCommands == { allTools[k].name : k \in { n \in DOMAIN allTools : allTools[n].writable } }

ReadCommands == CatalogNames \ MutatingCommands

HasListed == listed # << >>

ListedNames == { listed[1][k].name : k \in DOMAIN listed[1] }

\* call i has arrived and its result is not written out yet
Arrived(i) == calls[i].pc \in {"auth", "resource", "done"}

Done(i) == calls[i].pc = "done"

\* a SpotClient method was called for call i
HandlerInvoked(i) == calls[i].method # ""

\* the number of requests call i has sent upstream
Outbound(i) == (IF calls[i].exch # 0 THEN 1 ELSE 0) + Len(calls[i].request)

IsErrorResult(i, piece) ==
  /\ Len(calls[i].result) = 1
  /\ calls[i].result[1].isError
  /\ Has(calls[i].result[1].text, piece)

---------------------------------------------------------------------------
(* Properties *)

\* C1: in read-only mode a call of a mutating tool, whatever its arguments, ends
\* at once with an error result that says "not available in read-only mode"; no
\* SpotClient method runs and the call sends no token exchange and no resource
\* request.
C1_BlockedInReadOnly ==
  RestrictedMode =>
    \A i \in Calls :
      Arrived(i) /\ calls[i].name \in MutatingCommands =>
        /\ Done(i)
        /\ IsErrorResult(i, "not available in read-only mode")
        /\ ~HandlerInvoked(i)
        /\ calls[i].exch = 0
        /\ calls[i].request = NoRequest
        /\ exchanges = Cardinality({ j \in Calls : calls[j].exch # 0 })

C1_Witness ==
  /\ RestrictedMode
  /\ HasRefreshToken(env.REFRESH_TOKEN)
  /\ \E i \in Calls : Done(i) /\ calls[i].name = "delete_spot_node_pool"

\* C2: in read-only mode tools/list returns exactly the read-only tools: each of
\* them once, and no mutating tool.
C2_ListReadOnly ==
  RestrictedMode /\ HasListed =>
    /\ ListedNames = ReadCommands
    /\ ListedNames = READ_ONLY_TOOLS
    /\ Len(listed[1]) = Cardinality(ReadCommands)
    /\ ListedNames \cap WRITABLE_TOOLS = {}

C2_Witness == RestrictedMode /\ HasListed /\ env.READ_ONLY = "1" /\ Len(listed[1]) > 0


\* C3: calls that find no valid token while another call's authenticate() is still
\* awaiting the token endpoint join that exchange: together they send one POST to
\* /oauth/token.
C3_OneExchange ==
  \A j \in Calls : \A i \in calls[j].peers : calls[j].exch = calls[i].exch

\* C4: calls that needed authentication at the same time observe the same outcome:
\* all of them get the same new token, or all of them fail.
C4_SameOutcome ==
  \A j \in Calls : \A i \in calls[j].peers :
    calls[i].auth # "none" /\ calls[j].auth # "none" =>
      /\ calls[i].auth = calls[j].auth
      /\ calls[i].auth = "ok" =>
           calls[i].request[1].bearer = calls[j].request[1].bearer

\* a failure of the layers below the call handler: the gate rejected the call, an
\* error was thrown, or a resource endpoint answered with a non-success status
Failed(i) ==
  \/ calls[i].thrown
  \/ RestrictedMode /\ calls[i].name \in MutatingCommands
  \/ calls[i].status # "" /\ calls[i].status # "200"

\* C5: every call ends with a result, never with an exception; every failure
\* (missing credential, unknown name, failed authentication, rejected fetch,
\* non-2xx resource response) ends with isError = true and the text "Error: ...".
C5_EveryFailureIsAnErrorResult ==
  \A i \in Calls :
    Done(i) =>
      /\ Len(calls[i].result) = 1
      /\ Failed(i) =>
           /\ calls[i].result[1].isError
           /\ Len(calls[i].result[1].text) > 1
           /\ calls[i].result[1].text[1] = "Error: "

\* C6: a call that arrives while the cached token is valid (a token is cached and
\* now < expiry - 60s) sends no token exchange and sends its request with the
\* cached token; with the call that cached the token that is one exchange in all.
C6_TokenReuse ==
  [][ \A j \in Calls :
        ( /\ calls[j].pc = "idle"
          /\ HandlerInvoked(j)'
          /\ ~(calls'[j].method = "generateKubeconfig")
          /\ accessToken # 0
          /\ now < tokenExpiry - SafetyMarginMs )
        => /\ exchanges' = exchanges
           /\ calls'[j].exch = 0
           /\ Len(calls'[j].request) = 1
           /\ calls'[j].request[1].bearer = accessToken ]_vars

C6_Witness ==
  /\ calls[1].auth = "ok"
  /\ calls[2].pc = "resource"
  /\ calls[2].method = "listRegions"
  /\ calls[2].request[1].bearer = calls[1].exch
  /\ exchanges = 1

C8_ValidOnReturn ==
  [][ \A i \in Calls :
        ( /\ calls[i].pc # "resource"
          /\ calls'[i].pc = "resource"
          /\ calls'[i].method # "generateKubeconfig" )
        => /\ accessToken' # 0
           /\ now' < tokenExpiry' - SafetyMarginMs ]_vars

\* C9: a call of a name that is not in the catalog ends with an error result
\* whose text says "Unknown tool", in both policy modes.
C9_UnknownTool ==
  \A i \in Calls :
    Arrived(i) /\ calls[i].name \notin CatalogNames =>
      /\ Done(i)
      /\ IsErrorResult(i, "Unknown tool: ")

\* C10: in read-write mode tools/list returns every tool of the catalog, and for
\* every call of a catalog tool the gate lets the call through and its SpotClient
\* method is invoked.
C10_Permissive ==
  PermissiveMode =>
    /\ HasListed =>
         /\ ListedNames = CatalogNames
         /\ Len(listed[1]) = Cardinality(ReadCommands) + Cardinality(MutatingCommands)
    /\ \A name \in CatalogNames : ~Blocked(env.READ_ONLY, name)
    /\ \A i \in Calls :
         Arrived(i) /\ calls[i].name \in CatalogNames =>
           /\ HandlerInvoked(i)
           /\ calls[i].method = Dispatch[calls[i].name]

\* the Session as ensureAuthenticated tests it
SessionValid == accessToken # 0 /\ now < tokenExpiry - SafetyMarginMs

\* call i sends its resource request in this step
Sends(i) == calls[i].pc # "resource" /\ calls'[i].pc = "resource"

KubeconfigRequest == << [authorization |-> FALSE, bearer |-> 0, refresh |-> TRUE] >>

\* C12: get_kubeconfig / generateKubeconfig sends one request only, the POST that
\* carries the refresh token in its body and no Authorization header; it sends no
\* token exchange, and no step of the call changes the cached token or its expiry.
C12_KubeconfigExempt ==
  /\ [][ \A i \in Calls :
           calls'[i] # calls[i] /\ calls'[i].method = "generateKubeconfig" =>
             /\ exchanges' = exchanges
             /\ accessToken' = accessToken
             /\ tokenExpiry' = tokenExpiry
             /\ calls'[i].request = KubeconfigRequest ]_vars
  /\ [] \A i \in Calls :
          calls[i].name = "get_kubeconfig" /\ HandlerInvoked(i) =>
            /\ calls[i].method = "generateKubeconfig"
            /\ calls[i].exch = 0
            /\ calls[i].auth = "none"
            /\ calls[i].request = KubeconfigRequest
            /\ Outbound(i) = 1

C12_Witness ==
  /\ calls[1].method = "generateKubeconfig"
  /\ Done(1)
  /\ ~calls[1].result[1].isError
  /\ calls[1].request = KubeconfigRequest
  /\ exchanges = 0
  /\ accessToken = 0

\* call i got a resource response with a non-success status
NonOk(i) == calls[i].status # "" /\ ~IsOk(calls[i].status)

\* C13: every resource response with a non-2xx status, from every client method and
\* with every body (an empty one too), makes the call fail with an error whose
\* message holds the status and the body of the response; it is never returned as
\* a success.
C13_NonOkThrows ==
  \A i \in Calls :
    Done(i) /\ NonOk(i) =>
      /\ calls[i].thrown
      /\ IsErrorResult(i, calls[i].status)
      /\ Has(calls[i].result[1].text, calls[i].body)

\* C14: a process started without a refresh token never serves: it answers no
\* tools/list and no tools/call request.
C14_NoCredentialNoService ==
  ~HasRefreshToken(env.REFRESH_TOKEN) =>
    /\ process # "serving"
    /\ ~HasListed
    /\ \A i \in Calls : calls[i].pc = "idle"

\* the next call to arrive
NextCall(j) == calls[j].pc = "idle" /\ \A k \in Calls : k < j => calls[k].pc # "idle"

\* C15: no call's failure ends the process: once serving it stays serving, a call
\* that ended with an error result has its result written out, and after it (as in
\* every serving state between two turns of the loop) tools/list and the next
\* tools/call, whatever its name, are answered.
C15_KeepsServing ==
  /\ [][ process = "serving" => process' = "serving" ]_vars
  /\ [] \A i \in Calls :
          Done(i) /\ calls[i].result[1].isError =>
            /\ process = "serving"
            /\ ENABLED Respond(i)
  /\ [] ( process = "serving" /\ Quiet =>
            /\ ENABLED ListTools
            /\ \A j \in Calls :
                 NextCall(j) =>
                   \A name \in CallNames : \A args \in Arguments(name) :
                     ENABLED CallTool(j, name, args) )

C15_Witness ==
  /\ process = "serving"
  /\ calls[1].pc = "closed"
  /\ calls[1].auth = "failed"
  /\ HasListed
  /\ Done(2)
  /\ calls[2].thrown
  /\ IsErrorResult(2, "Failed to list regions: ")

\* some call has failed to authenticate
AuthHasFailed == \E i \in Calls : calls[i].auth = "failed"

\* C16: a failed authentication leaves nothing behind: the cached token and expiry
\* are what they were, a later call that needs a bearer token and finds no valid
\* Session sends a new token exchange, that exchange can succeed, and when it does
\* the call sends its request with the new token.
C16_FailureNotCached ==
  /\ [][ \A i \in Calls :
           calls[i].pc = "auth" /\ calls'[i].auth = "failed" =>
             /\ accessToken' = accessToken
             /\ tokenExpiry' = tokenExpiry ]_vars
  /\ [][ \A j \in Calls :
           ( /\ AuthHasFailed
             /\ calls[j].pc = "idle"
             /\ HandlerInvoked(j)'
             /\ calls'[j].method # "generateKubeconfig"
             /\ ~SessionValid )
           => /\ exchanges' = exchanges + 1
              /\ calls'[j].pc = "auth"
              /\ calls'[j].exch = exchanges' ]_vars
  /\ [][ \A j \in Calls :
           AuthHasFailed /\ calls[j].pc = "auth" /\ calls'[j].auth = "ok" =>
             /\ calls'[j].pc = "resource"
             /\ accessToken' = calls[j].exch
             /\ calls'[j].request[1].bearer = calls[j].exch ]_vars
  /\ [] \A j \in Calls :
          Quiet /\ calls[j].pc = "auth" => \A e \in ExpiresIn : ENABLED AuthGranted(j, e)

C16_Witness ==
  /\ calls[1].pc = "closed"
  /\ calls[1].auth = "failed"
  /\ calls[1].exch = 1
  /\ calls[2].exch = 2
  /\ calls[2].auth = "ok"
  /\ Done(2)
  /\ ~calls[2].result[1].isError
  /\ accessToken = 2

\* the gate has rejected call i
Rejected(i) == IsErrorResult(i, "not available in read-only mode")

\* C17: the mode is one of two, read-only or read-write, and never changes while
\* the process runs: no step changes the flag it is computed from, so every
\* tools/list and every tools/call is decided under the mode of the start: the
\* listing leaves out the mutating tools exactly when mutating calls are rejected.
C17_ModeFixed ==
  /\ [][ /\ env' = env
         /\ isReadOnly(env.READ_ONLY)' = isReadOnly(env.READ_ONLY) ]_vars
  /\ [] ( HasListed =>
            /\ RestrictedMode <=> ListedNames \cap MutatingCommands = {}
            /\ PermissiveMode <=> MutatingCommands \subseteq ListedNames )
  /\ [] \A i \in Calls :
          Done(i) /\ calls[i].name \in MutatingCommands =>
            /\ RestrictedMode <=> Rejected(i)
            /\ HasListed => (Rejected(i) <=> calls[i].name \notin ListedNames)

C17_Witness ==
  /\ env.READ_ONLY = "true"
  /\ HasListed
  /\ calls[1].pc = "closed"
  /\ calls[1].request = NoRequest
  /\ Done(2)
  /\ calls[2].name = "create_spot_node_pool"
  /\ Rejected(2)

\* C18: the mode is read-only exactly when RACKSPACE_SPOT_READ_ONLY is "true" or
\* "1": then the listing is the read-only tools and mutating calls are rejected;
\* with the variable unset, empty, "false" or "TRUE" the listing is the whole
\* catalog and no call is rejected by the gate.
C18_ReadOnlyValues ==
  /\ isReadOnly(env.READ_ONLY) <=> env.READ_ONLY \in {"true", "1"}
  /\ env.READ_ONLY \in {"true", "1"} =>
       /\ HasListed => ListedNames = ReadCommands
       /\ \A i \in Calls : Done(i) /\ calls[i].name \in MutatingCommands => Rejected(i)
  /\ env.READ_ONLY \in {Absent, "", "false", "TRUE"} =>
       /\ HasListed => ListedNames = CatalogNames /\ Len(listed[1]) = Len(allTools)
       /\ \A i \in Calls : ~Rejected(i)

C18_Witness ==
  /\ env.READ_ONLY = "TRUE"
  /\ HasListed
  /\ Len(listed[1]) = Len(allTools)
  /\ calls[1].name = "delete_cloudspace"
  /\ calls[1].pc = "resource"
  /\ env.REFRESH_TOKEN = "test-token"

\* C19 as the specification states it: 22 tools, 6 of them mutating, 16 listed in
\* read-only mode.
C19_AsStated ==
  /\ Len(allTools) = 22
  /\ Cardinality(MutatingCommands) = 6
  /\ RestrictedMode /\ HasListed => Len(listed[1]) = 16

\* C19: the catalog has 21 tools, 6 of them mutating, and in read-only mode
\* tools/list returns exactly 15 entries.
C19_CatalogCounts ==
  /\ Len(allTools) = 21
  /\ Cardinality(CatalogNames) = 21
  /\ Cardinality(MutatingCommands) = 6
  /\ MutatingCommands = WRITABLE_TOOLS
  /\ Cardinality(READ_ONLY_TOOLS) = 15
  /\ RestrictedMode /\ HasListed => Len(listed[1]) = 15

C19_Witness ==
  /\ env.READ_ONLY = "true"
  /\ HasListed
  /\ Len(listed[1]) = 15
  /\ Len(allTools) - Cardinality(WRITABLE_TOOLS) = Len(listed[1])

\* the SpotClient method of call i returned a value to the switch
ReturnedNormally(i) == Done(i) /\ HandlerInvoked(i) /\ ~calls[i].thrown

\* C20: when the SpotClient method returns normally, whatever it returns (no data
\* too), the result is not an error and its one text item is a string: the JSON
\* text of the returned value.
C20_SuccessEnvelope ==
  \A i \in Calls :
    ReturnedNormally(i) =>
      /\ Len(calls[i].result) = 1
      /\ ~calls[i].result[1].isError
      /\ calls[i].result[1].text # Undefined
      /\ Len(calls[i].result[1].text) = 1

\* call i came without the arguments its tool's inputSchema requires
ArgumentsMissing(i) == ~(Required(calls[i].name) \subseteq calls[i].args)

\* C21: a call of a tool whose inputSchema has required arguments, sent without
\* them, ends with an error result, for every such tool and whatever the upstream
\* answers.
C21_MissingArgumentsFail ==
  \A i \in Calls :
    Done(i) /\ ArgumentsMissing(i) =>
      /\ Len(calls[i].result) = 1
      /\ calls[i].result[1].isError

\* C22: the entries tools/list returns carry no writable flag, and producing them
\* leaves allTools as it was: every tools/list of a process returns the same
\* entries (those of its mode), and the gate rejects the same calls before and
\* after a listing.
C22_ProjectionPure ==
  /\ catalog = allTools
  /\ HasListed =>
       /\ \A k \in DOMAIN listed[1] : DOMAIN listed[1][k] = {"name", "required"}
       /\ RestrictedMode =>
            /\ ListedNames = ReadCommands
            /\ Len(listed[1]) = Cardinality(ReadCommands)
       /\ PermissiveMode =>
            /\ ListedNames = CatalogNames
            /\ Len(listed[1]) = Len(allTools)
  /\ \A i \in Calls :
       Done(i) /\ calls[i].name \in CatalogNames =>
         (Rejected(i) <=> RestrictedMode /\ calls[i].name \in MutatingCommands)

C22_Witness ==
  /\ env.READ_ONLY = "1"
  /\ HasListed
  /\ Len(listed[1]) = Cardinality(ReadCommands)
  /\ catalog = allTools
  /\ Done(1)
  /\ calls[1].name = "delete_cloudspace"
  /\ Rejected(1)

\* the texts of the results of a call whose token exchange was refused
RefusedTexts ==
  { << "Error: ", "Authentication failed: ", status, " - ", body >> :
      status \in { st \in AuthStatuses : ~IsOk(st) }, body \in Bodies }

\* C23: when the token endpoint answers with a non-success status, authenticate
\* fails with "Authentication failed: <status> - <body>", and the cached token and
\* expiry are after the failure what they were before it, whether no token was
\* cached, an expired one or a valid one.
C23_RefusalLeavesSession ==
  [][ \A i \in Calls :
        ( /\ calls[i].pc = "auth"
          /\ calls'[i].auth = "failed"
          /\ Has(calls'[i].result[1].text, "Authentication failed: ") )
        => /\ calls'[i].thrown
           /\ calls'[i].result[1].isError
           /\ calls'[i].result[1].text \in RefusedTexts
           /\ calls'[i].request = NoRequest
           /\ accessToken' = accessToken
           /\ tokenExpiry' = tokenExpiry ]_vars

C23_Witness ==
  /\ calls[1].auth = "ok"
  /\ calls[2].peers = {1}
  /\ Done(2)
  /\ IsErrorResult(2, "Authentication failed: ")
  /\ accessToken = calls[1].exch
  /\ SessionValid

\* C24: no call is retried: whatever the answers, a call sends at most one token
\* exchange and at most one resource request, and a non-2xx resource response ends
\* the call: it is followed by no new exchange and no second request.
C24_NoRetry ==
  /\ exchanges = Cardinality({ j \in Calls : calls[j].exch # 0 })
  /\ \A i \in Calls :
       /\ Len(calls[i].request) <= 1
       /\ Outbound(i) <= 2
       /\ calls[i].exch # 0 /\ Len(calls[i].request) = 1 => calls[i].auth = "ok"
       /\ calls[i].status # "" => Done(i) /\ Len(calls[i].request) = 1

C24_Witness ==
  /\ Done(1)
  /\ calls[1].method = "getMarketPriceCapacity"
  /\ calls[1].status = "403"
  /\ calls[1].auth = "ok"
  /\ Outbound(1) = 2
  /\ exchanges = 1
  /\ IsErrorResult(1, "403")

\* call i awaits an upstream answer
Awaiting(i) == calls[i].pc \in {"auth", "resource"}

\* C25: a call whose upstream request is never answered stays where it is (there
\* is no timeout: it moves on only when its own answer arrives), and it holds up
\* no other call: between two turns of the loop every other awaiting call can
\* take its answer and the next call can start, an exchange of its own included.
C25_HungCallHangsAlone ==
  /\ [][ \A i \in Calls :
           Awaiting(i) /\ calls'[i] # calls[i] =>
             \/ calls[i].pc = "auth" /\ calls'[i].auth \in {"ok", "failed"}
             \/ calls[i].pc = "resource" /\ calls'[i].status # ""
             \/ calls[i].pc = "resource" /\ IsErrorResult(i, "fetch failed")' ]_vars
  /\ [] ( (\A k \in Calls : calls[k].pc # "done") =>
            \A j \in Calls :
              /\ calls[j].pc = "auth" =>
                   /\ \A e \in ExpiresIn : ENABLED AuthGranted(j, e)
                   /\ \A b \in Bodies : ENABLED AuthRefused(j, "401", b)
              /\ calls[j].pc = "resource" =>
                   \A st \in ResourceStatuses : \A b \in Bodies :
                     ENABLED ResourceResponds(j, st, b)
              /\ NextCall(j) /\ process = "serving" =>
                   \A name \in CallNames : \A args \in Arguments(name) :
                     ENABLED CallTool(j, name, args) )

C25_Witness ==
  /\ calls[1].pc = "auth"
  /\ calls[2].peers = {1}
  /\ calls[2].auth = "ok"
  /\ calls[2].status = "200"
  /\ Done(2)
  /\ ~calls[2].result[1].isError

\* C26: no two entries of the catalog have the same name: a name stands for one
\* entry and one case of the switch, and a listing names each tool once.
C26_UniqueNames ==
  /\ \A k, l \in DOMAIN catalog : catalog[k].name = catalog[l].name => k = l
  /\ Cardinality(CatalogNames) = Len(allTools)
  /\ CatalogNames = DOMAIN Dispatch
  /\ HasListed => Cardinality(ListedNames) = Len(listed[1])

C26_Witness ==
  /\ PermissiveMode
  /\ HasListed
  /\ Cardinality(ListedNames) = Len(allTools)
  /\ Done(1)
  /\ calls[1].name = "get_cloudspace"
  /\ calls[1].method = Dispatch["get_cloudspace"]

\* C27: the entries of the catalog that carry the writable flag are the names of
\* WRITABLE_TOOLS, so the listing and the gate agree: in each mode a tool of the
\* catalog is listed exactly when a call of it is not rejected by the gate.
C27_ListAndGateAgree ==
  /\ MutatingCommands = WRITABLE_TOOLS
  /\ WRITABLE_TOOLS \subseteq CatalogNames
  /\ HasListed =>
       /\ \A name \in CatalogNames :
            name \in ListedNames <=> ~Blocked(env.READ_ONLY, name)
       /\ \A i \in Calls :
            Done(i) /\ calls[i].name \in CatalogNames =>
              (calls[i].name \in ListedNames <=> ~Rejected(i))

C27_Witness ==
  /\ RestrictedMode
  /\ HasListed
  /\ calls[1].pc = "closed"
  /\ calls[1].request # NoRequest
  /\ Done(2)
  /\ calls[2].name = "delete_ondemand_node_pool"
  /\ calls[2].name \notin ListedNames
  /\ Rejected(2)

\* the answer of call i's token exchange is processed in this step
ExchangeEnds(i) == calls[i].pc = "auth" /\ calls'[i].pc # "auth"

\* C28: when the exchanges of overlapping calls are answered in any order, a
\* failed one leaves the cached token and expiry alone and a successful one stores
\* its own; nothing else writes them, so once all have been answered the cache
\* holds what the last successful answer to be processed stored.
C28_LastSuccessWins ==
  /\ [][ \A i \in Calls :
           ExchangeEnds(i) =>
             IF calls'[i].auth = "ok"
             THEN /\ accessToken' = calls[i].exch
                  /\ \E e \in ExpiresIn : tokenExpiry' = ExpiryOf(now, e)
             ELSE /\ accessToken' = accessToken
                  /\ tokenExpiry' = tokenExpiry ]_vars
  /\ [][ accessToken' # accessToken \/ tokenExpiry' # tokenExpiry =>
           \E i \in Calls : ExchangeEnds(i) /\ calls'[i].auth = "ok" ]_vars
  /\ [] ( accessToken # 0 =>
            \E i \in Calls : calls[i].exch = accessToken /\ calls[i].auth = "ok" )

C28_Witness ==
  /\ calls[2].peers = {1}
  /\ calls[2].auth = "ok"
  /\ calls[2].pc = "closed"
  /\ calls[1].auth = "ok"
  /\ calls[1].pc = "resource"
  /\ accessToken = calls[1].exch
  /\ calls[2].request[1].bearer = calls[2].exch

\* C29: the cached token and the cached expiry always belong together: both are in
\* their initial state, or both were stored in one step from one answer of the
\* token endpoint; no step writes one of them without the other.
C29_SessionAtomic ==
  /\ [][ accessToken' # accessToken \/ tokenExpiry' # tokenExpiry =>
           \E i \in Calls : \E e \in ExpiresIn :
             /\ ExchangeEnds(i)
             /\ accessToken' = calls[i].exch
             /\ accessToken' # accessToken
             /\ tokenExpiry' = ExpiryOf(now, e) ]_vars
  /\ [] ( accessToken = 0 <=> tokenExpiry = 0 )
  /\ [] ( accessToken # 0 =>
            \E e \in ExpiresIn : \E t \in 0 .. MaxTicks : tokenExpiry = ExpiryOf(t * TickMs, e) )

C29_Witness ==
  /\ now = TickMs
  /\ calls[1].auth = "ok"
  /\ calls[1].pc = "closed"
  /\ calls[2].auth = "ok"
  /\ calls[2].peers = {}
  /\ accessToken = calls[2].exch
  /\ tokenExpiry = ExpiryOf(TickMs, 60)

C31_EventuallyReturns ==
  /\ \A i \in Calls : Awaiting(i) ~> Done(i)
  /\ \A i \in Calls : Done(i) ~> calls[i].pc = "closed"
  /\ [] \A i \in Calls :
          /\ Done(i) => Len(calls[i].result) = 1
          /\ Outbound(i) <= 2

C31_Witness ==
  /\ calls[1].pc = "auth"
  /\ calls[2].pc = "closed"
  /\ calls[2].peers = {1}
  /\ calls[2].auth = "ok"
  /\ Len(calls[2].request) = 1

\* C32: every entry of the catalog has a case in the switch, so a call of a name
\* that tools/list returns, in either mode, never ends with "Unknown tool"; only
\* names outside the catalog do.
C32_ListedHaveHandlers ==
  /\ CatalogNames \subseteq DOMAIN Dispatch
  /\ HasListed => ListedNames \subseteq DOMAIN Dispatch
  /\ \A i \in Calls :
       Done(i) =>
         /\ calls[i].name \in CatalogNames => ~Has(calls[i].result[1].text, "Unknown tool: ")
         /\ Has(calls[i].result[1].text, "Unknown tool: ") => calls[i].name = UnknownName
         /\ HandlerInvoked(i) => calls[i].method = Dispatch[calls[i].name]

C32_Witness ==
  /\ RestrictedMode
  /\ HasListed
  /\ Done(1)
  /\ calls[1].name = "get_market_pricing"
  /\ calls[1].name \in ListedNames
  /\ HandlerInvoked(1)
  /\ ~calls[1].result[1].isError

\* call i arrives in this step and the gate lets it through
PassesGate(i) ==
  /\ calls[i].pc = "idle"
  /\ calls'[i].pc # "idle"
  /\ ~(RestrictedMode /\ calls'[i].name \in MutatingCommands)

\* C33: the process has at most one client: it is constructed by the first call
\* that passes the gate (not at the start, not by tools/list, not by a rejected
\* call), and is never replaced: from that call on every call finds it in place,
\* and no arrival of a call resets the cached token and expiry.
C33_OneSession ==
  /\ [][ client # "null" => client' = client ]_vars
  /\ [][ client' # client => \E i \in Calls : PassesGate(i) ]_vars
  /\ [][ \A i \in Calls : PassesGate(i) => client' = "SpotClient" ]_vars
  /\ [][ \A i \in Calls :
           calls[i].pc = "idle" /\ calls'[i].pc # "idle" =>
             accessToken' = accessToken /\ tokenExpiry' = tokenExpiry ]_vars
  /\ [] ( client = "null" => accessToken = 0 /\ tokenExpiry = 0 /\ exchanges = 0 )

\* the exchanges the token endpoint has answered with a token
GrantedTokens == { calls[j].exch : j \in { k \in Calls : calls[k].auth = "ok" } }

\* C34: the bearer token of every request that has an Authorization header is a
\* token that a successful exchange of this client returned before the request
\* was sent: never the null token, never the serial of a failed or unanswered
\* exchange; the same holds for the cached token.
C34_BearerWasGranted ==
  /\ \A i \in Calls :
       Len(calls[i].request) = 1 /\ calls[i].request[1].authorization =>
         /\ calls[i].request[1].bearer # 0
         /\ calls[i].request[1].bearer \in GrantedTokens
         /\ \A j \in Calls :
              calls[j].auth # "ok" /\ calls[j].exch # 0 =>
                calls[i].request[1].bearer # calls[j].exch
  /\ \A i \in Calls :
       Len(calls[i].request) = 1 /\ ~calls[i].request[1].authorization =>
         calls[i].request = KubeconfigRequest
  /\ accessToken # 0 => accessToken \in GrantedTokens

C34_Witness ==
  /\ calls[1].pc = "closed"
  /\ calls[1].auth = "failed"
  /\ calls[2].pc = "resource"
  /\ calls[2].method = "getMarketPriceCapacity"
  /\ calls[2].request[1].authorization
  /\ calls[2].request[1].bearer = calls[2].exch
  /\ calls[2].request[1].bearer # calls[1].exch

\* call i arrives in this step
Arrives(i) == calls[i].pc = "idle" /\ calls'[i].pc # "idle"

\* C35: a tools/list request, a call the policy blocks and a call of a name that
\* is in no catalog leave the cached token and expiry as they were and send
\* nothing upstream: no token exchange and no resource request; the two kinds of
\* call end at once with their error result.
C35_NoUpstreamEffect ==
  /\ [][ listed' # listed =>
           /\ accessToken' = accessToken
           /\ tokenExpiry' = tokenExpiry
           /\ exchanges' = exchanges
           /\ calls' = calls ]_vars
  /\ [][ \A i \in Calls :
           ( /\ Arrives(i)
             /\ \/ RestrictedMode /\ calls'[i].name \in MutatingCommands
                \/ calls'[i].name \notin CatalogNames )
           => /\ accessToken' = accessToken
              /\ tokenExpiry' = tokenExpiry
              /\ exchanges' = exchanges
              /\ Done(i)'
              /\ calls'[i].result[1].isError
              /\ calls'[i].exch = 0
              /\ calls'[i].request = NoRequest
              /\ \A j \in Calls : j # i => calls'[j] = calls[j] ]_vars
  /\ [] \A i \in Calls :
          Rejected(i) \/ IsErrorResult(i, "Unknown tool: ") =>
            /\ calls[i].exch = 0
            /\ calls[i].request = NoRequest
            /\ ~HandlerInvoked(i)

C35_Witness ==
  /\ HasListed
  /\ calls[1].pc = "closed"
  /\ calls[1].auth = "ok"
  /\ accessToken = calls[1].exch
  /\ SessionValid
  /\ Done(2)
  /\ calls[2].name = UnknownName
  /\ IsErrorResult(2, "Unknown tool: ")
  /\ exchanges = 1

=============================================================================
